---- MODULE Spec2Model ----
(***************************************************************************)
(* Rollout controller of the hybrid progressive capture system.            *)
(*                                                                         *)
(* The store holds one rollout_configuration row (feature                  *)
(* hybrid_progressive_capture) and the append-only rollout_history table.  *)
(* They are written by                                                     *)
(*   - scripts/rollout/set-rollout-percentage.js (fetch, row update and    *)
(*     history insert are three separate store calls, so three steps),     *)
(*   - ops/scripts/rollout-manager.ts (one store call per command),        *)
(* and read by scripts/rollout/health-checker.js, which the Rollout Health *)
(* Monitor workflow runs and which may dispatch the Rollout Emergency      *)
(* Rollback workflow (emergency-rollback.js, verify-rollback.js).          *)
(*                                                                         *)
(* Progressive capture: HybridGitHubClient (compound GraphQL query with    *)
(* REST fallback, and its metrics), HybridQueueManager (the routing of a   *)
(* job to Inngest or GitHub Actions), and one run of the PR details        *)
(* capture script (BaseCaptureScript.run) with its ProgressTracker, the    *)
(* progressive_capture_jobs row and the progressive_capture_progress row.  *)
(***************************************************************************)
EXTENDS Integers, Sequences, FiniteSets, TLC

\* ------------------------------------------------------------------ bounds

\* Invocations of set-rollout-percentage.js in one behaviour.
MaxInvocations == 2

\* Dispatched runs of the emergency rollback workflow waiting to be picked up.
MaxQueue == 1

\* ------------------------------------------------------------- input sets

\* Concurrent operator shells running set-rollout-percentage.js.
Scripts == {"s1", "s2"}

Strategies == {"percentage", "whitelist", "repository_size"}

\* Command-line arguments, as the characters the process receives.
\* <<>> is an argument that was not given.
ArgStrings ==
  { <<>>, <<"x">>, <<"-", "1">>, <<"0">>, <<"1", "0", "0">>, <<"1", "0", "1">> }

\* Reasons given on the command line; <<>> is none given.
ReasonArgs == { <<>>, <<"ops">> }

\* Outcome of one store call: the row(s) come back, the client returns
\* {error}, or the call throws.
StoreOutcomes == {"ok", "error"}

\* --------------------------------------------------------------- parseInt

Digits == {"0", "1", "2", "3", "4", "5", "6", "7", "8", "9"}

DigitVal(c) ==
  CASE c = "0" -> 0 [] c = "1" -> 1 [] c = "2" -> 2 [] c = "3" -> 3
    [] c = "4" -> 4 [] c = "5" -> 5 [] c = "6" -> 6 [] c = "7" -> 7
    [] c = "8" -> 8 [] c = "9" -> 9

\* The longest prefix of s made of digits.
RECURSIVE DigitPrefix(_)
DigitPrefix(s) ==
  IF s = <<>> \/ Head(s) \notin Digits THEN <<>>
  ELSE <<Head(s)>> \o DigitPrefix(Tail(s))

RECURSIVE DigitsValue(_, _)
DigitsValue(s, acc) ==
  IF s = <<>> THEN acc ELSE DigitsValue(Tail(s), 10 * acc + DigitVal(Head(s)))

\* JavaScript parseInt(s) in radix 10: an optional sign, then the leading
\* digits; NaN when there is none.  nan is the NaN flag, val the number.
ParseInt(s) ==
  LET neg  == s # <<>> /\ Head(s) = "-"
      body == IF s # <<>> /\ Head(s) \in {"-", "+"} THEN Tail(s) ELSE s
      ds   == DigitPrefix(body)
  IN  IF ds = <<>> THEN [nan |-> TRUE, val |-> 0]
      ELSE [nan |-> FALSE,
            val |-> IF neg THEN 0 - DigitsValue(ds, 0) ELSE DigitsValue(ds, 0)]

\* ------------------------------------------------------------------ state

VARIABLES
  config,       \* the rollout_configuration row of hybrid_progressive_capture
  history,      \* the rollout_history table, oldest entry first
  spc,          \* set-rollout-percentage.js: where each running script is
  sloc,         \* set-rollout-percentage.js: each script's local variables
  invocations,  \* how many times set-rollout-percentage.js was started
  mgr,          \* rollout-manager.ts: the last command and how it ended
  hm,           \* the running (or last) Rollout Health Monitor workflow run
  queue,        \* dispatched Rollout Emergency Rollback runs not yet started
  rb,           \* the running (or last) Rollout Emergency Rollback run
  client,       \* HybridGitHubClient: toggle, metrics and the last call
  router,       \* HybridQueueManager: the last job queued and its processor
  job,          \* the progressive_capture_jobs row of the worker's job
  progress,     \* the progressive_capture_progress row of that job
  tracker,      \* ProgressTracker: the worker's in-memory progress
  worker,       \* the capture script: its items and where run() is
  monitor       \* RateLimitMonitor: samples, alerts and the last prediction

storeVars == <<config, history>>
scriptVars == <<spc, sloc, invocations>>
workflowVars == <<hm, queue, rb>>
workerVars == <<job, progress, tracker, worker>>
captureVars == <<client, router, workerVars, monitor>>

\* A script that has not run yet.
FreshLocals ==
  [ targetPercentage   |-> <<>>,
    reason             |-> <<>>,
    percentage         |-> [nan |-> TRUE, val |-> 0],
    previousPercentage |-> 0,
    historyError       |-> FALSE,
    outcome            |-> "none",
    exitCode           |-> 0 ]

\* The row as the specification's state machine starts it: active, not
\* stopped, percentage 0; the strategy is whatever the row was created with.
InitStore ==
  /\ config \in [ rollout_percentage : {0},
                  rollout_strategy   : Strategies,
                  emergency_stop     : {FALSE},
                  is_active          : {TRUE} ]
  /\ history = <<>>

InitScripts ==
  /\ spc = [s \in Scripts |-> "idle"]
  /\ sloc = [s \in Scripts |-> FreshLocals]
  /\ invocations = 0

InitManager == mgr = [command |-> "none", outcome |-> "none", exitCode |-> 0]

\* ------------------------------------------- set-rollout-percentage.js

\* process.exit(code) with the message the script prints.  What is left of
\* an exited script is its exit code and its output: the percentages of the
\* success message and the warning of a failed history insert.
ScriptExit(s, locals, code, what) ==
  /\ spc' = [spc EXCEPT ![s] = "exited"]
  /\ sloc' = [sloc EXCEPT ![s] =
       IF what = "ok"
       THEN [locals EXCEPT !.targetPercentage = <<>>, !.reason = <<>>,
                           !.exitCode = code, !.outcome = what]
       ELSE [FreshLocals EXCEPT !.exitCode = code, !.outcome = what]]

\* isNaN(percentage) || percentage < 0 || percentage > 100
ScriptInvalidPercentage(n) == n.nan \/ n.val < 0 \/ n.val > 100

\* Lines 6-24: read the arguments, check the credentials, parse and
\* validate the percentage.
ScriptStart(s, arg, reasonArg, hasCredentials) ==
  /\ spc[s] \in {"idle", "exited"}
  /\ invocations < MaxInvocations
  /\ invocations' = invocations + 1
  /\ LET target == IF arg = <<>> THEN <<"2", "5">> ELSE arg
         why    == IF reasonArg = <<>>
                   THEN <<"Setting rollout to ">> \o target \o <<"%">>
                   ELSE reasonArg
         n      == ParseInt(target)
         locals == [FreshLocals EXCEPT !.targetPercentage = target,
                                       !.reason = why,
                                       !.percentage = n]
     IN  IF ~hasCredentials
         THEN ScriptExit(s, locals, 1, "MissingCredentials")
         ELSE IF ScriptInvalidPercentage(n)
         THEN ScriptExit(s, locals, 1, "InvalidArgument")
         ELSE /\ spc' = [spc EXCEPT ![s] = "fetch"]
              /\ sloc' = [sloc EXCEPT ![s] = locals]
  /\ UNCHANGED <<storeVars, mgr, workflowVars, captureVars>>

\* Lines 31-62: select the row of the feature with is_active = true;
\* .single() answers an error when no row matches.
ScriptFetch(s, outcome) ==
  /\ spc[s] = "fetch"
  /\ IF outcome = "error" \/ ~config.is_active
     THEN ScriptExit(s, sloc[s], 1, "FetchError")
     ELSE IF config.emergency_stop
     THEN ScriptExit(s, sloc[s], 1, "EmergencyStopped")
     ELSE /\ spc' = [spc EXCEPT ![s] = "update"]
          /\ sloc' = [sloc EXCEPT ![s].previousPercentage = config.rollout_percentage]
  /\ UNCHANGED <<storeVars, invocations, mgr, workflowVars, captureVars>>

\* Lines 64-76: update rollout_percentage of the row fetched.
ScriptUpdateRow(s, outcome) ==
  /\ spc[s] = "update"
  /\ IF outcome = "error"
     THEN /\ ScriptExit(s, sloc[s], 1, "StoreError")
          /\ UNCHANGED config
     ELSE /\ config' = [config EXCEPT !.rollout_percentage = sloc[s].percentage.val]
          /\ spc' = [spc EXCEPT ![s] = "history"]
          /\ UNCHANGED sloc
  /\ UNCHANGED <<history, invocations, mgr, workflowVars, captureVars>>

\* The rollout_history row the script inserts (lines 81-92).
ScriptHistoryEntry(locals) ==
  [ action              |-> "updated",
    previous_percentage |-> locals.previousPercentage,
    new_percentage      |-> locals.percentage.val,
    reason              |-> locals.reason,
    triggered_by        |-> "manual",
    script              |-> "set-rollout-percentage.js" ]

\* Lines 78-114: insert the history row; a failed insert is only warned
\* about, and the script reports success and exits 0 either way.
ScriptInsertHistory(s, outcome) ==
  /\ spc[s] = "history"
  /\ IF outcome = "error"
     THEN /\ UNCHANGED history
          /\ ScriptExit(s, [sloc[s] EXCEPT !.historyError = TRUE], 0, "ok")
     ELSE /\ history' = Append(history, ScriptHistoryEntry(sloc[s]))
          /\ ScriptExit(s, sloc[s], 0, "ok")
  /\ UNCHANGED <<config, invocations, mgr, workflowVars, captureVars>>

\* ------------------------------------------------------ rollout-manager.ts

\* The range check with its upper bound off by one.
ManagerInvalidPercentageExclusive(n) == n < 0 \/ n >= 100

\* newPercentage < 0 || newPercentage > 100
ManagerInvalidPercentage(n) == n < 0 \/ n > 100

\* Every command ends in process.exit(0) (line 219).
ManagerDone(command, what) ==
  mgr' = [command |-> command, outcome |-> what, exitCode |-> 0]

\* `update <percentage>`: main lines 173-182 and updateRolloutPercentage.
\* The row is updated by feature name alone; emergency_stop is not read
\* and rollout_history is not written.
ManagerUpdate(arg, outcome) ==
  LET percentage == ParseInt(arg)
  IN  /\ IF percentage.nan
         THEN /\ ManagerDone("update", "NotANumber")
              /\ UNCHANGED config
         ELSE IF ManagerInvalidPercentage(percentage.val)
         THEN /\ ManagerDone("update", "InvalidArgument")
              /\ UNCHANGED config
         ELSE IF outcome = "error"
         THEN /\ ManagerDone("update", "StoreError")
              /\ UNCHANGED config
         ELSE /\ config' = [config EXCEPT !.rollout_percentage = percentage.val]
              /\ ManagerDone("update", "ok")
      /\ UNCHANGED <<history, scriptVars, workflowVars, captureVars>>

\* emergencyStop writing emergency_stop alone.
ManagerStopFlagOnly(outcome) ==
  /\ IF outcome = "error"
     THEN /\ ManagerDone("stop", "StoreError")
          /\ UNCHANGED config
     ELSE /\ config' = [config EXCEPT !.emergency_stop = TRUE]
          /\ ManagerDone("stop", "ok")
  /\ UNCHANGED <<history, scriptVars, workflowVars, captureVars>>

\* `stop`: emergencyStop.
ManagerStop(outcome) ==
  /\ IF outcome = "error"
     THEN /\ ManagerDone("stop", "StoreError")
          /\ UNCHANGED config
     ELSE /\ config' = [config EXCEPT !.emergency_stop = TRUE, !.is_active = FALSE]
          /\ ManagerDone("stop", "ok")
  /\ UNCHANGED <<history, scriptVars, workflowVars, captureVars>>

\* `resume`: resumeRollout.
ManagerResume(outcome) ==
  /\ IF outcome = "error"
     THEN /\ ManagerDone("resume", "StoreError")
          /\ UNCHANGED config
     ELSE /\ config' = [config EXCEPT !.emergency_stop = FALSE, !.is_active = TRUE]
          /\ ManagerDone("resume", "ok")
  /\ UNCHANGED <<history, scriptVars, workflowVars, captureVars>>

\* `query`: queryRollout reads the row and prints it, or prints the error.
ManagerQuery(outcome) ==
  /\ ManagerDone("query", IF outcome = "error" THEN "StoreError" ELSE "ok")
  /\ UNCHANGED <<storeVars, scriptVars, workflowVars, captureVars>>

\* `history`: viewRolloutHistory reads the last entries and prints them, or
\* prints the error.
ManagerHistory(outcome) ==
  /\ ManagerDone("history", IF outcome = "error" THEN "StoreError" ELSE "ok")
  /\ UNCHANGED <<storeVars, scriptVars, workflowVars, captureVars>>

\* ------------------------------------------------------ health-checker.js

\* Readings of the error rate, in thousandths.  The script carries the
\* reading 0.02 (line 93) in place of a measurement; the other values are
\* the readings its thresholds tell apart.
ErrorRates == {20, 40, 100}

criticalErrorRate == 50
warningErrorRate == 30
responseTime == 245
maxResponseTime == 500

\* How the script's query for the row can end: the row comes back, the
\* client answers {error}, or the call throws.
ReadOutcomes == {"ok", "error", "throw"}

\* The read as queryRollout of the manager does it: the row by feature name
\* alone, and its stored percentage.
getStoredRolloutPercentage(hasCredentials, outcome) ==
  IF ~hasCredentials THEN 0
  ELSE IF outcome \in {"throw", "error"} THEN 0
  ELSE config.rollout_percentage

\* getCurrentRolloutPercentage: 0 without credentials, on a store error or
\* exception, when no active row matches, and under emergency stop;
\* otherwise the stored percentage.
getCurrentRolloutPercentage(hasCredentials, outcome) ==
  IF ~hasCredentials THEN 0
  ELSE IF outcome = "throw" THEN 0
  ELSE IF outcome = "error" \/ ~config.is_active THEN 0
  ELSE IF config.emergency_stop THEN 0
  ELSE config.rollout_percentage

\* Lines 102-116: the status of the health report.
HealthStatus(errorRate) ==
  LET byErrors == IF errorRate > criticalErrorRate THEN "critical"
                  ELSE IF errorRate > warningErrorRate THEN "warning"
                  ELSE "healthy"
  IN  IF responseTime > maxResponseTime
      THEN (IF byErrors = "critical" THEN "critical" ELSE "warning")
      ELSE byErrors

\* runHealthCheck: the health report written and the exit code.
runHealthCheck(forceCheck, hasCredentials, outcome, errorRate) ==
  LET current == getCurrentRolloutPercentage(hasCredentials, outcome)
  IN  IF current = 0 /\ ~forceCheck
      THEN [ status |-> "healthy", rolloutPercentage |-> current,
             skipped |-> TRUE, errorRate |-> 0, exitCode |-> 0 ]
      ELSE [ status |-> HealthStatus(errorRate), rolloutPercentage |-> current,
             skipped |-> FALSE, errorRate |-> errorRate,
             exitCode |-> IF HealthStatus(errorRate) = "critical" THEN 1 ELSE 0 ]

\* ------------------------------------- workflow: Rollout Health Monitor

\* No artifact written yet.
NoReport ==
  [ status |-> "none", rolloutPercentage |-> 0, skipped |-> FALSE,
    errorRate |-> 0, exitCode |-> 0 ]

NoRollbackReport ==
  [ rollbackPercentage |-> <<>>, reason |-> <<>>, triggeredBy |-> "none",
    previousPercentage |-> 0, status |-> "none" ]

NoVerification ==
  [ expectedPercentage |-> <<>>, actualPercentage |-> <<>>, status |-> "none" ]

InitWorkflows ==
  /\ hm = [pc |-> "idle", forceCheck |-> FALSE, report |-> NoReport]
  /\ queue = <<>>
  /\ rb = [ pc |-> "idle",
            inputs |-> [reason |-> <<>>, rollback_to |-> <<>>,
                        triggered_by |-> "none", confirm_rollback |-> ""],
            rollbackReport |-> NoRollbackReport,
            verification |-> NoVerification,
            conclusion |-> "none" ]

\* The schedule, or a workflow_dispatch with force_check.
MonitorStart(forceCheck) ==
  /\ hm.pc = "idle"
  /\ hm' = [pc |-> "check", forceCheck |-> forceCheck, report |-> NoReport]
  /\ UNCHANGED <<storeVars, scriptVars, mgr, captureVars, queue, rb>>

\* Step "Run rollout health check".
MonitorHealthCheck(hasCredentials, outcome, errorRate) ==
  /\ hm.pc = "check"
  /\ hm' = [hm EXCEPT !.pc = "trigger",
                      !.report = runHealthCheck(hm.forceCheck, hasCredentials,
                                                outcome, errorRate)]
  /\ UNCHANGED <<storeVars, scriptVars, mgr, captureVars, queue, rb>>

\* What `gh workflow run rollout-emergency-rollback.yml -f reason=...
\* -f triggered_by=...` dispatches: rollback_to takes its default and
\* confirm_rollback is not given.
MonitorDispatchInputs ==
  [ reason           |-> <<"Health monitor detected critical issues">>,
    rollback_to      |-> <<"0">>,
    triggered_by     |-> "automated_health_check",
    confirm_rollback |-> "" ]

\* Step "Trigger emergency rollback if needed" (if: failure()), then the
\* run ends.  The forge either creates the run with the inputs given or
\* refuses the dispatch because a required input is missing.
MonitorTrigger(dispatch) ==
  /\ hm.pc = "trigger"
  /\ IF hm.report.exitCode # 0 /\ dispatch = "accepted"
     THEN /\ Len(queue) < MaxQueue
          /\ queue' = Append(queue, MonitorDispatchInputs)
     ELSE UNCHANGED queue
  /\ hm' = [pc |-> "idle", forceCheck |-> FALSE, report |-> NoReport]
  /\ UNCHANGED <<storeVars, scriptVars, mgr, captureVars, rb>>

\* -------------------------------- workflow: Rollout Emergency Rollback

RollbackTargets == { <<"0">>, <<"5", "0">> }
Confirmations == {"YES", "yes"}

\* An operator dispatches the workflow by hand.
RollbackDispatch(target, confirmation) ==
  /\ Len(queue) < MaxQueue
  /\ queue' = Append(queue, [ reason           |-> <<"ops">>,
                              rollback_to      |-> target,
                              triggered_by     |-> "manual",
                              confirm_rollback |-> confirmation ])
  /\ UNCHANGED <<storeVars, scriptVars, mgr, captureVars, hm, rb>>

\* The run starts: job emergency-rollback runs only if confirm_rollback is
\* YES; otherwise job rollback-confirmation-failed runs and exits 1.
RollbackPickup ==
  /\ queue # <<>>
  /\ rb.pc \in {"idle", "done"}
  /\ queue' = Tail(queue)
  /\ rb' = [ pc |-> IF Head(queue).confirm_rollback = "YES" THEN "rollback" ELSE "done",
             inputs |-> Head(queue),
             rollbackReport |-> NoRollbackReport,
             verification |-> NoVerification,
             conclusion |-> IF Head(queue).confirm_rollback = "YES"
                            THEN "running" ELSE "failure" ]
  /\ UNCHANGED <<storeVars, scriptVars, mgr, captureVars, hm>>

\* emergency-rollback.js: prints the rollback and writes the rollback
\* report; it holds no store client.
EmergencyRollbackReport(inputs) ==
  [ rollbackPercentage |-> IF inputs.rollback_to = <<>> THEN <<"0">>
                           ELSE inputs.rollback_to,
    reason             |-> inputs.reason,
    triggeredBy        |-> inputs.triggered_by,
    previousPercentage |-> 100,
    status             |-> "completed" ]

\* Step "Execute emergency rollback".
RollbackExecute ==
  /\ rb.pc = "rollback"
  /\ rb' = [rb EXCEPT !.pc = "verify",
                      !.rollbackReport = EmergencyRollbackReport(rb.inputs)]
  /\ UNCHANGED <<storeVars, scriptVars, mgr, captureVars, hm, queue>>

\* verify-rollback.js: the verification report; actualPercentage is a copy
\* of EXPECTED_PERCENTAGE and the store is not read.
VerificationReport(inputs) ==
  LET expectedPercentage == IF inputs.rollback_to = <<>> THEN <<"0">>
                            ELSE inputs.rollback_to
  IN  [ expectedPercentage |-> expectedPercentage,
        actualPercentage   |-> expectedPercentage,
        status             |-> "verified" ]

\* Step "Verify rollback completion".
RollbackVerify ==
  /\ rb.pc = "verify"
  /\ rb' = [rb EXCEPT !.pc = "report",
                      !.verification = VerificationReport(rb.inputs)]
  /\ UNCHANGED <<storeVars, scriptVars, mgr, captureVars, hm, queue>>

\* The alert and incident issues and the upload of the two reports.
RollbackFinish ==
  /\ rb.pc = "report"
  /\ rb' = [rb EXCEPT !.pc = "done", !.conclusion = "success"]
  /\ UNCHANGED <<storeVars, scriptVars, mgr, captureVars, hm, queue>>

\* ------------------------------------------------- hybrid-github-client.js

\* Hybrid client calls in one behaviour.
MaxCalls == 3

\* Rate-limit costs the forge reports for a compound (GraphQL) query.
Costs == {1, 5, 7}

\* The remaining budget the forge reports with a compound query.
Remainings == {4990}

\* The rateLimit object of a compound response.
RateLimits == [cost : Costs, remaining : Remainings, limit : {5000}]

\* GitHubGraphQLClient.lastRateLimit before the first response.
NoRateLimit == [cost |-> 0, remaining |-> 0, limit |-> 0]

\* How the compound query of a call ends: with a response that transforms,
\* with the forge's NotFound or a transport error thrown by graphql.query,
\* or with a response whose transformation (or costing) throws.
CompoundOutcomes == {"ok", "notFound", "transport", "transformError"}

\* How the fine-grained (REST) calls of an operation end.
RestOutcomes == {"ok", "notFound", "error"}

NoCall ==
  [op |-> "none", compound |-> "none", cost |-> 0, path |-> "none", outcome |-> "none"]

\* The constructor: compound path on, all counters zero.
InitClient ==
  client = [ useGraphQL |-> TRUE,
             metrics    |-> [ graphqlQueries   |-> 0,
                              restQueries      |-> 0,
                              fallbacks        |-> 0,
                              totalPointsSaved |-> 0 ],
             calls      |-> 0,
             last       |-> NoCall,
             lastRateLimit |-> NoRateLimit ]

MathMax(a, b) == IF a >= b THEN a ELSE b

\* The saving computed without the clamp at zero.
calculatePointsSavedUnclamped(restCalls, graphqlCost) == restCalls - graphqlCost

\* Math.max(0, restCalls - graphqlCost)
calculatePointsSaved(restCalls, graphqlCost) == MathMax(0, restCalls - graphqlCost)

\* The metrics after the REST calls of an operation: restQueries counts
\* them only when all of them succeeded.
RestQueriesAfter(m, n, rest) ==
  IF rest = "ok" THEN [m EXCEPT !.restQueries = @ + n] ELSE m

\* The five parallel calls counted as one query.
getPRCompleteDataRESTCountedOnce(m, rest) == RestQueriesAfter(m, 1, rest)

getPRCompleteDataREST(m, rest) == RestQueriesAfter(m, 5, rest)

getPRReviewsREST(m, rest) == RestQueriesAfter(m, 1, rest)

getPRCommentsREST(m, rest) == RestQueriesAfter(m, 2, rest)

getRecentPRsREST(m, rest) == RestQueriesAfter(m, 1, rest)

\* The try block adding the points saved for every operation.
TryCompoundAlwaysSaves(savesPoints, compound, cost) ==
  LET m       == client.metrics
      queried == IF compound \in {"ok", "transformError"}
                 THEN [m EXCEPT !.graphqlQueries = @ + 1]
                 ELSE m
  IN  IF ~client.useGraphQL THEN m
      ELSE IF compound # "ok" THEN [queried EXCEPT !.fallbacks = @ + 1]
      ELSE [queried EXCEPT !.totalPointsSaved = @ + calculatePointsSaved(5, cost)]

\* The try block the four operations share, up to the REST variant.  With
\* the compound path on, the query runs first; graphqlQueries is incremented
\* once it has answered, before the transformation; whatever is thrown
\* inside the try block, NotFound included, is caught and fallbacks is
\* incremented.  Only getPRCompleteData adds the points saved.
TryCompound(savesPoints, compound, cost) ==
  LET m       == client.metrics
      queried == IF compound \in {"ok", "transformError"}
                 THEN [m EXCEPT !.graphqlQueries = @ + 1]
                 ELSE m
  IN  IF ~client.useGraphQL THEN m
      ELSE IF compound # "ok" THEN [queried EXCEPT !.fallbacks = @ + 1]
      ELSE IF savesPoints
      THEN [queried EXCEPT !.totalPointsSaved = @ + calculatePointsSaved(5, cost)]
      ELSE queried

\* The REST variant runs when the compound path is off or its try block
\* threw.
UsesRest(compound) == ~client.useGraphQL \/ compound # "ok"

\* The end of an operation: the compound result, or the REST variant's
\* result or error.
\* GitHubGraphQLClient.query keeps the rateLimit of every response it gets.
ClientAfter(op, compound, rateLimit, rest, metrics) ==
  [client EXCEPT
     !.metrics = metrics,
     !.calls   = @ + 1,
     !.last    = IF UsesRest(compound)
                 THEN [op |-> op,
                       compound |-> IF client.useGraphQL THEN compound ELSE "none",
                       cost |-> 0, path |-> "rest", outcome |-> rest]
                 ELSE [op |-> op, compound |-> "ok", cost |-> rateLimit.cost,
                       path |-> "graphql", outcome |-> "ok"],
     !.lastRateLimit = IF client.useGraphQL /\ compound \in {"ok", "transformError"}
                       THEN rateLimit
                       ELSE @]

HybridReturn(op, compound, rateLimit, rest, metrics) ==
  /\ client.calls < MaxCalls
  /\ client' = ClientAfter(op, compound, rateLimit, rest, metrics)
  /\ UNCHANGED <<storeVars, scriptVars, mgr, workflowVars, router, workerVars, monitor>>

getPRCompleteData(compound, rateLimit, rest) ==
  LET tried == TryCompound(TRUE, compound, rateLimit.cost)
  IN  HybridReturn("getPRCompleteData", compound, rateLimit, rest,
        IF UsesRest(compound) THEN getPRCompleteDataREST(tried, rest) ELSE tried)

getPRReviews(compound, rateLimit, rest) ==
  LET tried == TryCompound(FALSE, compound, rateLimit.cost)
  IN  HybridReturn("getPRReviews", compound, rateLimit, rest,
        IF UsesRest(compound) THEN getPRReviewsREST(tried, rest) ELSE tried)

getPRComments(compound, rateLimit, rest) ==
  LET tried == TryCompound(FALSE, compound, rateLimit.cost)
  IN  HybridReturn("getPRComments", compound, rateLimit, rest,
        IF UsesRest(compound) THEN getPRCommentsREST(tried, rest) ELSE tried)

getRecentPRs(compound, rateLimit, rest) ==
  LET tried == TryCompound(FALSE, compound, rateLimit.cost)
  IN  HybridReturn("getRecentPRs", compound, rateLimit, rest,
        IF UsesRest(compound) THEN getRecentPRsREST(tried, rest) ELSE tried)

setGraphQLEnabled(enabled) ==
  /\ client' = [client EXCEPT !.useGraphQL = enabled]
  /\ UNCHANGED <<storeVars, scriptVars, mgr, workflowVars, router, workerVars, monitor>>

\* ------------------------------------------------- HybridQueueManager

\* JobData.timeRange, in days; the field is optional.
TimeRanges ==
  {[present |-> FALSE, val |-> 0]} \cup
  {[present |-> TRUE, val |-> d] : d \in {-1, 0, 1, 2, 30, 180}}

\* The list 1, 2, ..., n of pull request numbers.
PRList(n) == [i \in 1..n |-> i]

\* JobData.prNumbers; the field is optional.
PRNumberLists ==
  {[present |-> FALSE, val |-> <<>>]} \cup
  {[present |-> TRUE, val |-> PRList(n)] : n \in {0, 1, 10, 11}}

TriggerSources == {"manual", "scheduled", "automatic"}

JobDatas == [timeRange : TimeRanges, prNumbers : PRNumberLists,
             triggerSource : TriggerSources]

InitRouter ==
  router = [ queued  |-> FALSE,
             data    |-> [ timeRange     |-> [present |-> FALSE, val |-> 0],
                           prNumbers     |-> [present |-> FALSE, val |-> <<>>],
                           triggerSource |-> "scheduled" ],
             processor_type |-> "none" ]

\* isRecentDataJob.  `data.timeRange &&` is false for a missing field and
\* for 0; `data.prNumbers &&` is false only for a missing field, an empty
\* array being truthy.
isRecentDataJob(data, cutoffHours) ==
  \/ data.timeRange.present /\ data.timeRange.val # 0 /\ data.timeRange.val <= 1
  \/ data.prNumbers.present /\ Len(data.prNumbers.val) <= 10
  \/ data.triggerSource = "manual"

\* queueJob with queueWithInngest / queueWithGitHubActions: the job is
\* tracked with the processor the routing chose.
queueJob(data) ==
  /\ router' = [ queued  |-> TRUE,
                 data    |-> data,
                 processor_type |-> IF isRecentDataJob(data, 24)
                                    THEN "inngest"
                                    ELSE "github_actions" ]
  /\ UNCHANGED <<storeVars, scriptVars, mgr, workflowVars, client, workerVars, monitor>>

\* ------------------------------------ capture worker and progress tracker

\* Entries of PR_NUMBERS, and pull requests a store query may match.
MaxItems == 3

\* Comma-separated entries PR_NUMBERS may hold.
PRTokens == { <<"4">>, <<"1", "2">>, <<"x">> }

RECURSIVE TokenLists(_)
TokenLists(n) ==
  IF n = 0
  THEN { <<>> }
  ELSE TokenLists(n - 1) \cup
       { Append(l, tok) : l \in { m \in TokenLists(n - 1) : Len(m) = n - 1 },
                          tok \in PRTokens }

\* What processing one item ends in: stored, the forge's 404 (logged by
\* processItem and not rethrown), or an error processItem throws.
ItemOutcomes == {"ok", "notFound", "error"}

rolloutVars == <<storeVars, scriptVars, mgr, workflowVars>>

NoItem == [text |-> "none", n |-> 0]

\* The job row as the schema creates it: status 'pending', no timestamps.
InitJob ==
  job = [status |-> "pending", started_at |-> "null", completed_at |-> "null",
         error |-> "null"]

InitWorker ==
  /\ InitJob
  /\ progress = [ exists |-> FALSE, total_items |-> 0, processed_items |-> 0,
                  failed_items |-> 0, current_item |-> NoItem, errors |-> <<>> ]
  /\ tracker = [ progressId |-> FALSE, totalItems |-> 0, processedItems |-> 0,
                 failedItems |-> 0, errors |-> <<>> ]
  /\ worker = [ pc |-> "idle", script |-> "none", useGraphQL |-> FALSE,
                prNumbers |-> <<>>, discovery |-> "none", items |-> <<>>, idx |-> 1,
                processed |-> 0, failed |-> 0, exitCode |-> 0 ]

\* PR_NUMBERS?.split(',').map(n => parseInt(n.trim())).filter(n => !isNaN(n)) || []
parsePRNumbers(tokens) ==
  LET parsed == [i \in 1..Len(tokens) |-> ParseInt(tokens[i])]
      kept   == SelectSeq(parsed, LAMBDA p : ~p.nan)
  IN  [i \in 1..Len(kept) |-> kept[i].val]

\* this.prNumbers.length || 100
getTotalItems(prNumbers) == IF Len(prNumbers) # 0 THEN Len(prNumbers) ELSE 100

\* .limit(n) of a store query.
Limit(rows, n) == SubSeq(rows, 1, IF Len(rows) < n THEN Len(rows) ELSE n)

\* The requested pull requests, else the store's rows missing their
\* details, at most 100 of them; a failing query yields no items.
getItemsToProcess(prNumbers, rows, outcome) ==
  IF Len(prNumbers) > 0 THEN prNumbers
  ELSE IF outcome = "error" THEN <<>>
  ELSE Limit(rows, 100)

\* getItemsToProcess of PRDetailsGraphQLCaptureScript: the requested pull
\* requests; else, with the compound path on, what hybridClient.getRecentPRs
\* returns (nothing when it throws) and, with it off, the store's rows.
getItemsToProcessGraphQL(prNumbers, useGraphQL, recentPRs, thrown, rows, outcome) ==
  IF Len(prNumbers) > 0 THEN prNumbers
  ELSE IF useGraphQL THEN (IF thrown THEN <<>> ELSE Limit(recentPRs, 100))
  ELSE IF outcome = "error" THEN <<>>
  ELSE Limit(rows, 100)

\* The scripts that take PR_NUMBERS: PRDetailsCaptureScript,
\* PRDetailsGraphQLCaptureScript, PRReviewsCaptureScript and
\* PRCommentsCaptureScript.
CaptureScripts == {"details", "detailsGraphQL", "reviews", "comments"}

\* The constructor of a capture script.  PRDetailsGraphQLCaptureScript
\* reads USE_GRAPHQL (on unless it is 'false') and hands it to its hybrid
\* client; the other scripts have no such field.
WorkerConstruct(script, useGraphQL, tokens) ==
  /\ worker.pc = "idle"
  /\ worker' = [worker EXCEPT !.pc = "start", !.script = script,
                              !.useGraphQL = (script = "detailsGraphQL" /\ useGraphQL),
                              !.prNumbers = parsePRNumbers(tokens)]
  /\ IF script = "detailsGraphQL"
     THEN client' = [client EXCEPT !.useGraphQL = useGraphQL]
     ELSE UNCHANGED client
  /\ UNCHANGED <<rolloutVars, monitor, router, job, progress, tracker>>

\* run, line 42: progressTracker.start(getTotalItems()).  A failing insert
\* is logged and leaves the tracker without a progress row.
TrackerStart(outcome) ==
  LET totalItems == getTotalItems(worker.prNumbers)
  IN  /\ worker.pc = "start"
      /\ tracker' = [tracker EXCEPT !.totalItems = totalItems,
                                    !.progressId = (outcome = "ok")]
      /\ IF outcome = "ok"
         THEN progress' = [ exists |-> TRUE, total_items |-> totalItems,
                            processed_items |-> 0, failed_items |-> 0,
                            current_item |-> [text |-> "Starting...", n |-> 0],
                            errors |-> <<>> ]
         ELSE UNCHANGED progress
      /\ worker' = [worker EXCEPT !.pc = "fetch"]
      /\ UNCHANGED <<rolloutVars, monitor, client, router, job>>

\* run, lines 44-48.
\* discovery is where the items came from: PR_NUMBERS, the store, or the
\* forge through hybridClient.getRecentPRs, whose call goes through the
\* client like any other.
WorkerGetItems(rows, outcome, compound, rateLimit, rest) ==
  LET forge  == /\ worker.script = "detailsGraphQL"
                /\ Len(worker.prNumbers) = 0
                /\ worker.useGraphQL
      tried  == TryCompound(FALSE, compound, rateLimit.cost)
      thrown == UsesRest(compound) /\ rest # "ok"
      items  == IF worker.script = "detailsGraphQL"
                THEN getItemsToProcessGraphQL(worker.prNumbers, worker.useGraphQL,
                                              rows, thrown, rows, outcome)
                ELSE getItemsToProcess(worker.prNumbers, rows, outcome)
  IN  /\ worker.pc = "fetch"
      /\ worker' = [worker EXCEPT
                      !.items = items, !.idx = 1,
                      !.discovery = IF Len(worker.prNumbers) > 0 THEN "prNumbers"
                                    ELSE IF forge THEN "forge" ELSE "store",
                      !.pc = IF Len(items) = 0 THEN "complete" ELSE "loop"]
      /\ IF forge
         THEN client' = ClientAfter("getRecentPRs", compound, rateLimit, rest,
                          IF UsesRest(compound) THEN getRecentPRsREST(tried, rest)
                          ELSE tried)
         ELSE UNCHANGED client
      /\ UNCHANGED <<rolloutVars, monitor, router, job, progress, tracker>>

\* recordError counting the item as processed as well.
recordErrorAlsoProcessed(t, itemId, message) ==
  [t EXCEPT !.failedItems = @ + 1, !.processedItems = @ + 1,
            !.errors = Append(@, [itemId |-> itemId, error |-> message])]

\* recordError counting the failure without keeping its error record.
recordErrorCountOnly(t, itemId, message) ==
  [t EXCEPT !.failedItems = @ + 1]

\* recordError, lines 63-68: the tracker's own record.
recordError(t, itemId, message) ==
  [t EXCEPT !.failedItems = @ + 1,
            !.errors = Append(@, [itemId |-> itemId, error |-> message])]

\* One turn of the loop of run, lines 50-66.  A processed item goes through
\* increment, a thrown error through recordError; either writes the
\* progress row only when the tracker has one, and a failing write is
\* logged and dropped.
WorkerProcessItem(outcome, write) ==
  LET item    == worker.items[worker.idx]
      written == tracker.progressId /\ write = "ok"
      after   == IF outcome = "error"
                 THEN recordError(tracker, item, "Request failed")
                 ELSE [tracker EXCEPT !.processedItems = @ + 1]
  IN  /\ worker.pc = "loop"
      /\ tracker' = after
      /\ IF ~written
         THEN UNCHANGED progress
         ELSE IF outcome = "error"
         THEN progress' = [progress EXCEPT !.failed_items = after.failedItems,
                                           !.errors = after.errors]
         ELSE progress' = [progress EXCEPT
                             !.processed_items = after.processedItems,
                             !.current_item = [text |-> "Item", n |-> after.processedItems]]
      /\ worker' = [worker EXCEPT
                      !.processed = IF outcome = "error" THEN @ ELSE @ + 1,
                      !.failed    = IF outcome = "error" THEN @ + 1 ELSE @,
                      !.idx       = @ + 1,
                      !.pc        = IF worker.idx = Len(worker.items)
                                    THEN "complete" ELSE "loop"]
      /\ UNCHANGED <<rolloutVars, monitor, client, router, job>>

\* updateJobStatus: completed_at is set for 'completed' only, the error text
\* for 'failed' only, started_at never; a failing update is logged and
\* dropped.
updateJobStatus(j, status, error, outcome) ==
  IF outcome = "error" THEN j
  ELSE IF status = "completed"
  THEN [j EXCEPT !.status = status, !.completed_at = "now"]
  ELSE IF status = "failed" /\ error # "null"
  THEN [j EXCEPT !.status = status, !.error = error]
  ELSE [j EXCEPT !.status = status]

\* run, line 68: progressTracker.complete().
TrackerComplete(write, statusWrite) ==
  /\ worker.pc = "complete"
  /\ IF tracker.progressId /\ write = "ok"
     THEN progress' = [progress EXCEPT
                         !.processed_items = tracker.processedItems,
                         !.failed_items = tracker.failedItems,
                         !.current_item = [text |-> "Completed", n |-> 0]]
     ELSE UNCHANGED progress
  /\ job' = updateJobStatus(job, "completed", "null", statusWrite)
  /\ worker' = [worker EXCEPT !.pc = "summary"]
  /\ UNCHANGED <<rolloutVars, monitor, client, router, tracker>>

\* run, lines 70-115: the metrics report and the summary file.  When
\* writing it throws, the catch block calls progressTracker.fail(error) and
\* rethrows, and the script exits with code 1.
WorkerWriteSummary(outcome, write, statusWrite) ==
  /\ worker.pc = "summary"
  /\ IF outcome = "ok"
     THEN /\ worker' = [worker EXCEPT !.pc = "done", !.exitCode = 0]
          /\ UNCHANGED <<job, progress>>
     ELSE /\ IF tracker.progressId /\ write = "ok"
             THEN progress' = [progress EXCEPT
                                 !.current_item = [text |-> "Failed", n |-> 0],
                                 !.errors = Append(tracker.errors,
                                              [itemId |-> 0, error |-> "write failed"])]
             ELSE UNCHANGED progress
          /\ job' = updateJobStatus(job, "failed", "write failed", statusWrite)
          /\ worker' = [worker EXCEPT !.pc = "failed", !.exitCode = 1]
  /\ UNCHANGED <<rolloutVars, monitor, client, router, tracker>>

\* ------------------------------------------------------ RateLimitMonitor

\* track calls on one monitor in one behaviour.
MaxTracks == 3

\* Hours the monitor's clock may advance.
MaxHours == 24

\* track calls of a long run, enough to produce more alerts than are kept.
AlertTracks == 27

\* this.thresholds and the sizes the monitor works with.
warningThreshold == 1000
criticalThreshold == 100
efficiencyThreshold == 5
maxAlerts == 50
recentEntries == 10
retentionHours == 24

\* Rate limits handed to track: cost, remaining budget, limit.
TrackedRateLimits == [cost : {0, 1, 6}, remaining : {50, 500, 4990}, limit : {5000}]

\* A forge whose budget drains by 6 points a query, from one of two budgets.
DrainingRateLimits ==
  IF monitor.history = <<>>
  THEN {[cost |-> 6, remaining |-> b - 6, limit |-> 5000] : b \in {1010, 200}}
  ELSE {[cost |-> 6, remaining |-> monitor.history[Len(monitor.history)].remaining - 6,
         limit |-> 5000]}

\* A number as JavaScript holds it: finite, Infinity or NaN.
Number(n) == [kind |-> "number", val |-> n]

NoPrediction ==
  [ made |-> FALSE, queriesRemaining |-> 0, averageCost |-> 0, predictedCost |-> 0,
    currentRemaining |-> 0, willExceedLimit |-> FALSE, safeQueries |-> Number(0) ]

\* The constructor: no samples, no alerts.
InitMonitor ==
  monitor = [ now |-> 0, tracks |-> 0, history |-> <<>>, alerts |-> <<>>,
              prediction |-> NoPrediction ]

\* a / b rounded to the nearest integer, as toFixed rounds; a >= 0, b > 0.
RoundDiv(a, b) == (2 * a + b) \div (2 * b)

\* The alert kept when the list is full being the oldest ones.
addAlertKeepsOldest(alerts, alert) ==
  LET pushed == Append(alerts, alert)
  IN  IF Len(pushed) > maxAlerts THEN SubSeq(pushed, 1, maxAlerts) ELSE pushed

\* addAlert: push, then slice(-50) when more than 50 are held.
addAlert(alerts, alert) ==
  LET pushed == Append(alerts, alert)
  IN  IF Len(pushed) > maxAlerts
      THEN SubSeq(pushed, Len(pushed) - maxAlerts + 1, Len(pushed))
      ELSE pushed

\* An alert; the message is its text and the number printed in it (the
\* efficiency with two decimals, so in hundredths).
Alert(level, text, value, now) ==
  [level |-> level, text |-> text, value |-> value, timestamp |-> now]

\* checkThresholds: at most one alert on the remaining budget, then one on
\* the cost per item.
checkThresholds(alerts, entry, now) ==
  LET onRemaining ==
        IF entry.remaining < criticalThreshold
        THEN addAlert(alerts, Alert("critical", "Rate limit critical", entry.remaining, now))
        ELSE IF entry.remaining < warningThreshold
        THEN addAlert(alerts, Alert("warning", "Rate limit warning", entry.remaining, now))
        ELSE alerts
  IN  IF entry.cost > efficiencyThreshold * entry.itemsProcessed
      THEN addAlert(onRemaining,
                    Alert("info", "Query efficiency alert",
                          RoundDiv(100 * entry.cost, entry.itemsProcessed), now))
      ELSE onRemaining

\* cleanOldEntries: the entries of the last 24 hours.
cleanOldEntries(entries, now) ==
  SelectSeq(entries, LAMBDA e : e.timestamp > now - retentionHours)

\* track(rateLimit, queryType, itemsProcessed)
track(maxTracks, rateLimit, queryType, itemsProcessed) ==
  LET entry == [ timestamp |-> monitor.now, queryType |-> queryType,
                 itemsProcessed |-> itemsProcessed, cost |-> rateLimit.cost,
                 remaining |-> rateLimit.remaining, limit |-> rateLimit.limit ]
  IN  /\ monitor.tracks < maxTracks
      /\ monitor' = [monitor EXCEPT
                       !.tracks  = @ + 1,
                       !.history = cleanOldEntries(Append(@, entry), monitor.now),
                       !.alerts  = checkThresholds(@, entry, monitor.now)]
      /\ UNCHANGED <<rolloutVars, client, router, workerVars>>

\* Time passing between two calls.
MonitorClock(hours) ==
  /\ monitor.now + hours <= MaxHours
  /\ monitor' = [monitor EXCEPT !.now = @ + hours]
  /\ UNCHANGED <<rolloutVars, client, router, workerVars>>

RECURSIVE SumCost(_)
SumCost(entries) ==
  IF entries = <<>> THEN 0 ELSE entries[1].cost + SumCost(Tail(entries))

\* history.slice(-10)
Recent(entries) ==
  SubSeq(entries, IF Len(entries) > recentEntries THEN Len(entries) - recentEntries + 1 ELSE 1,
         Len(entries))

\* Math.floor(currentRemaining / averageCost), the average being
\* totalCost / n: a division by zero gives Infinity, 0 / 0 gives NaN.
safeQueries(currentRemaining, totalCost, n) ==
  IF totalCost > 0 THEN Number((currentRemaining * n) \div totalCost)
  ELSE IF currentRemaining > 0 THEN [kind |-> "Infinity", val |-> 0]
  ELSE [kind |-> "NaN", val |-> 0]

\* predict(queriesRemaining): null without samples; averageCost is printed
\* with two decimals (hundredths here), predictedCost with none.
predict(queriesRemaining) ==
  LET recent    == Recent(monitor.history)
      n         == Len(recent)
      totalCost == SumCost(recent)
      currentRemaining == monitor.history[Len(monitor.history)].remaining
  IN  /\ monitor' =
           [monitor EXCEPT !.prediction =
              IF monitor.history = <<>> THEN NoPrediction
              ELSE [ made             |-> TRUE,
                     queriesRemaining |-> queriesRemaining,
                     averageCost      |-> RoundDiv(100 * totalCost, n),
                     predictedCost    |-> RoundDiv(queriesRemaining * totalCost, n),
                     currentRemaining |-> currentRemaining,
                     willExceedLimit  |-> queriesRemaining * totalCost > currentRemaining * n,
                     safeQueries      |-> safeQueries(currentRemaining, totalCost, n) ]]
      /\ UNCHANGED <<rolloutVars, client, router, workerVars>>

\* ---------------------------------------------------------- specifications

vars == <<config, history, spc, sloc, invocations, mgr, hm, queue, rb,
          client, router, job, progress, tracker, worker, monitor>>

Init ==
  /\ InitStore /\ InitScripts /\ InitManager /\ InitWorkflows
  /\ InitClient /\ InitRouter /\ InitWorker /\ InitMonitor

ManagerNextOf(args, outcomes) ==
  \/ \E arg \in args, outcome \in outcomes : ManagerUpdate(arg, outcome)
  \/ \E outcome \in outcomes : ManagerStop(outcome)
  \/ \E outcome \in outcomes : ManagerResume(outcome)

ManagerNext == ManagerNextOf(ArgStrings, StoreOutcomes)

ScriptNextOf(running, reasons) ==
  \E s \in running :
    \/ \E arg \in ArgStrings, reasonArg \in reasons, hasCredentials \in BOOLEAN :
         ScriptStart(s, arg, reasonArg, hasCredentials)
    \/ \E outcome \in StoreOutcomes : ScriptFetch(s, outcome)
    \/ \E outcome \in StoreOutcomes : ScriptUpdateRow(s, outcome)
    \/ \E outcome \in StoreOutcomes : ScriptInsertHistory(s, outcome)

MonitorNext ==
  \/ \E forceCheck \in BOOLEAN : MonitorStart(forceCheck)
  \/ \E hasCredentials \in BOOLEAN, outcome \in ReadOutcomes, errorRate \in ErrorRates :
       MonitorHealthCheck(hasCredentials, outcome, errorRate)
  \/ \E dispatch \in {"accepted", "refused"} : MonitorTrigger(dispatch)

RollbackNext ==
  \/ \E target \in RollbackTargets, confirmation \in Confirmations :
       RollbackDispatch(target, confirmation)
  \/ RollbackPickup
  \/ RollbackExecute
  \/ RollbackVerify
  \/ RollbackFinish

\* The rollout controller: the operator's two tools against the store, the
\* script possibly running in several shells at once.
Next == ManagerNext \/ ScriptNextOf(Scripts, ReasonArgs)

Spec == Init /\ [][Next]_vars

\* One operator using both tools, one script run at a time and no reason
\* given to it.
ManagerReadNext ==
  \/ \E outcome \in StoreOutcomes : ManagerQuery(outcome)
  \/ \E outcome \in StoreOutcomes : ManagerHistory(outcome)

OperatorNext == ManagerNext \/ ManagerReadNext \/ ScriptNextOf({"s1"}, {<<>>})

\* The row of that operator is on the percentage strategy.
OperatorInit == Init /\ config.rollout_strategy = "percentage"

OperatorSpec == OperatorInit /\ [][OperatorNext]_vars

\* The health collaborator: the two workflows, with the operator's manager
\* commands (their store calls succeeding) changing the configuration
\* under them.
HealthNext ==
  \/ ManagerNextOf({<<"0">>, <<"1", "0", "0">>}, {"ok"})
  \/ MonitorNext
  \/ RollbackNext

HealthSpec == Init /\ [][HealthNext]_vars

\* The hybrid client: any sequence of its operations, the compound path
\* switched on and off between them.
ClientNext ==
  \/ \E compound \in CompoundOutcomes, rateLimit \in RateLimits, rest \in RestOutcomes :
       \/ getPRCompleteData(compound, rateLimit, rest)
       \/ getPRReviews(compound, rateLimit, rest)
       \/ getPRComments(compound, rateLimit, rest)
       \/ getRecentPRs(compound, rateLimit, rest)
  \/ \E enabled \in BOOLEAN : setGraphQLEnabled(enabled)

ClientSpec == OperatorInit /\ [][ClientNext]_vars

\* The rate-limit monitor fed with arbitrary samples, hours apart.
GovernorNext ==
  \/ \E rateLimit \in TrackedRateLimits :
       track(MaxTracks, rateLimit, "getPRCompleteData", 1)
  \/ \E hours \in {12} : MonitorClock(hours)
  \/ \E queriesRemaining \in {0, 10, 1000} : predict(queriesRemaining)

GovernorSpec == OperatorInit /\ [][GovernorNext]_vars

\* The monitor over a long run against a draining budget.
AlertNext ==
  \/ \E rateLimit \in DrainingRateLimits :
       track(AlertTracks, rateLimit, "getPRCompleteData", 1)
  \/ \E queriesRemaining \in {0, 10} : predict(queriesRemaining)

AlertSpec == OperatorInit /\ [][AlertNext]_vars

\* The router: jobs queued one after another.
RouterNext == \E data \in JobDatas : queueJob(data)

RouterSpec == OperatorInit /\ [][RouterNext]_vars

\* One run of a capture script.
WorkerNextOf(scripts, tokenLists, rowCounts, itemOutcomes, outcomes) ==
  \/ \E script \in scripts, useGraphQL \in BOOLEAN, tokens \in tokenLists :
       WorkerConstruct(script, useGraphQL, tokens)
  \/ \E outcome \in outcomes : TrackerStart(outcome)
  \/ \E n \in rowCounts, outcome \in outcomes, compound \in CompoundOutcomes,
        rateLimit \in RateLimits, rest \in RestOutcomes :
       WorkerGetItems(PRList(n), outcome, compound, rateLimit, rest)
  \/ \E outcome \in itemOutcomes, write \in outcomes : WorkerProcessItem(outcome, write)
  \/ \E write \in outcomes, statusWrite \in outcomes : TrackerComplete(write, statusWrite)
  \/ \E outcome \in {"ok", "throw"}, write \in outcomes, statusWrite \in outcomes :
       WorkerWriteSummary(outcome, write, statusWrite)

WorkerNext ==
  WorkerNextOf({"details"}, TokenLists(MaxItems), 0..MaxItems, ItemOutcomes, StoreOutcomes)

WorkerSpec == OperatorInit /\ [][WorkerNext]_vars

\* A run over PR_NUMBERS=1,2,...,10 with the store answering every call.
StreakTokens ==
  << <<"1">>, <<"2">>, <<"3">>, <<"4">>, <<"5">>, <<"6">>, <<"7">>, <<"8">>,
     <<"9">>, <<"1", "0">> >>

StreakNext == WorkerNextOf({"details"}, {StreakTokens}, {0}, {"ok", "error"}, {"ok"})

StreakSpec == OperatorInit /\ [][StreakNext]_vars

\* The four scripts that take PR_NUMBERS, each run with PR_NUMBERS unset or
\* naming one pull request, over a store and a forge holding up to MaxRows
\* pull requests.
MaxRows == 2

DiscoveryNext ==
  WorkerNextOf(CaptureScripts, {<<>>, << <<"7">> >>}, 0..MaxRows, ItemOutcomes,
               StoreOutcomes)

DiscoverySpec == OperatorInit /\ [][DiscoveryNext]_vars

\* ------------------------------------------------------------------ claims

\* Arguments that parse to a percentage in [0,100], and those that parse
\* to a number outside it.
InRangeArgs ==
  {a \in ArgStrings : ~ParseInt(a).nan /\ ParseInt(a).val >= 0 /\ ParseInt(a).val <= 100}
OutOfRangeArgs ==
  {a \in ArgStrings : ~ParseInt(a).nan /\ (ParseInt(a).val < 0 \/ ParseInt(a).val > 100)}

LastEntry(h) == h[Len(h)]

\* C1: while emergency_stop is true, an update of a valid percentage
\* through either entry point (the manager's update command, the script
\* reading the configuration) fails with EmergencyStopped and leaves the
\* configuration row and the history as they were.
C1_UpdateRejectedUnderEmergencyStop ==
  [][ config.emergency_stop =>
        /\ \A arg \in InRangeArgs :
             ManagerUpdate(arg, "ok") =>
               mgr'.outcome = "EmergencyStopped" /\ UNCHANGED storeVars
        /\ \A s \in Scripts :
             ScriptFetch(s, "ok") =>
               sloc'[s].outcome = "EmergencyStopped" /\ UNCHANGED storeVars
    ]_vars

\* C2: every change of the configuration made by a completed operation has
\* its history entry: a manager command that changes the row appends, in
\* the same call, an entry with the percentage before and after; a script
\* run that ends in success has appended the entry of its row update.
C2_EveryChangeAudited ==
  [][ /\ (mgr' # mgr /\ config' # config) =>
           /\ Len(history') = Len(history) + 1
           /\ LastEntry(history').previous_percentage = config.rollout_percentage
           /\ LastEntry(history').new_percentage = config'.rollout_percentage
      /\ \A s \in Scripts :
           (spc[s] = "history" /\ spc'[s] = "exited" /\ sloc'[s].outcome = "ok") =>
             /\ Len(history') = Len(history) + 1
             /\ LastEntry(history').previous_percentage = sloc[s].previousPercentage
             /\ LastEntry(history').new_percentage = sloc[s].percentage.val
    ]_vars

\* The script has written its percentage into the row / its history entry
\* into the table.
RowWrittenBy(s) ==
  spc[s] = "history" \/ (spc[s] = "exited" /\ sloc[s].outcome = "ok")
HistoryWrittenBy(s) ==
  spc[s] = "exited" /\ sloc[s].outcome = "ok" /\ ~sloc[s].historyError

\* C3: in every reachable state, for every script run, the new row and its
\* history entry are both present or both absent.
C3_UpdateAndHistoryAtomic ==
  \A s \in Scripts : RowWrittenBy(s) <=> HistoryWrittenBy(s)

\* C4: a percentage outside [0,100] is refused with InvalidArgument by
\* both entry points and neither the row nor the history changes; a
\* percentage in [0,100], 0 and 100 included, is accepted while
\* emergency_stop is false: the manager stores it, the script passes its
\* validation and its emergency-stop check and stores it, whenever the
\* store call itself succeeds.
C4_PercentageRange ==
  [][ /\ (mgr' # mgr \/ config' # config) =>
           /\ \A arg \in OutOfRangeArgs, outcome \in StoreOutcomes :
                ManagerUpdate(arg, outcome) =>
                  mgr'.outcome = "InvalidArgument" /\ UNCHANGED storeVars
           /\ \A arg \in InRangeArgs :
                (ManagerUpdate(arg, "ok") /\ ~config.emergency_stop) =>
                  /\ mgr'.outcome = "ok"
                  /\ config' = [config EXCEPT !.rollout_percentage = ParseInt(arg).val]
      /\ \A s \in Scripts :
           spc'[s] # spc[s] =>
             /\ \A reasonArg \in ReasonArgs, arg \in OutOfRangeArgs :
                  ScriptStart(s, arg, reasonArg, TRUE) =>
                    /\ spc'[s] = "exited"
                    /\ sloc'[s].outcome = "InvalidArgument"
                    /\ sloc'[s].exitCode = 1
                    /\ UNCHANGED storeVars
             /\ \A reasonArg \in ReasonArgs, arg \in InRangeArgs :
                  ScriptStart(s, arg, reasonArg, TRUE) =>
                    spc'[s] = "fetch" /\ sloc'[s].percentage.val = ParseInt(arg).val
             /\ (ScriptFetch(s, "ok") /\ ~config.emergency_stop) => spc'[s] = "update"
             /\ ScriptUpdateRow(s, "ok") =>
                  /\ config'.rollout_percentage = sloc[s].percentage.val
                  /\ config'.rollout_percentage \in 0..100
    ]_vars

\* C4 witness: both boundaries have been stored and both entry points have
\* refused an out-of-range percentage.
C4_Witness ==
  /\ mgr.outcome = "InvalidArgument"
  /\ sloc["s1"].outcome = "InvalidArgument"
  /\ config.rollout_percentage = 100
  /\ history # <<>>
  /\ LastEntry(history).new_percentage = 0

\* C5: stop on an active, not stopped configuration sets emergency_stop and
\* clears is_active, keeps percentage and strategy and appends a stop
\* entry; resume on the stopped configuration restores is_active and
\* emergency_stop, keeps percentage and strategy and appends a resume
\* entry: after stop and resume the configuration is the one before the
\* stop and the history holds both transitions.
C5_StopResumeRoundTrip ==
  [][ /\ (ManagerStop("ok") /\ config.is_active /\ ~config.emergency_stop) =>
           /\ config' = [config EXCEPT !.emergency_stop = TRUE, !.is_active = FALSE]
           /\ Len(history') = Len(history) + 1
           /\ LastEntry(history').action = "stop"
      /\ (ManagerResume("ok") /\ config.emergency_stop) =>
           /\ config' = [config EXCEPT !.emergency_stop = FALSE, !.is_active = TRUE]
           /\ Len(history') = Len(history) + 1
           /\ LastEntry(history').action = "resume"
    ]_vars

\* C6: two runs of the script with the same percentage p, on a
\* configuration that is not stopped and that nothing else writes, leave
\* the configuration a single update(p) leaves and two history entries.
\* (The second run reads p as the previous percentage: the first run wrote
\* it and ended in success.)
C6_TwoUpdatesTwoEntries ==
  ( /\ invocations = 2
    /\ mgr.command = "none"
    /\ spc["s1"] = "exited"
    /\ sloc["s1"].outcome = "ok"
    /\ sloc["s1"].percentage.val # 0
    /\ sloc["s1"].previousPercentage = sloc["s1"].percentage.val )
  => /\ config.rollout_percentage = sloc["s1"].percentage.val
     /\ ~config.emergency_stop
     /\ config.is_active
     /\ Len(history) = 2

\* C7: in every reachable state with emergency_stop true, the percentage
\* the health checker computes from the live row is 0, whatever is stored
\* and however its read ends.
C7_EffectiveZeroUnderStop ==
  config.emergency_stop =>
    \A hasCredentials \in BOOLEAN, outcome \in ReadOutcomes :
      getCurrentRolloutPercentage(hasCredentials, outcome) = 0

\* C7 witness: a forced health check has reported 0 with the row stopped
\* at a stored percentage of 100.
C7_Witness ==
  /\ config.emergency_stop
  /\ config.rollout_percentage = 100
  /\ hm.pc = "trigger"
  /\ hm.forceCheck
  /\ ~hm.report.skipped
  /\ hm.report.rolloutPercentage = 0

\* C8: the step that executes the rollback stores the target percentage
\* and appends a history entry with the old and new percentage, the reason
\* and the triggered-by tag, as an update would.
C8_RollbackWritesStore ==
  [][ RollbackExecute =>
        /\ rb'.rollbackReport.status = "completed"
        /\ config'.rollout_percentage = ParseInt(rb'.rollbackReport.rollbackPercentage).val
        /\ Len(history') = Len(history) + 1
        /\ LastEntry(history').previous_percentage = config.rollout_percentage
        /\ LastEntry(history').new_percentage = config'.rollout_percentage
        /\ LastEntry(history').reason = rb.inputs.reason
        /\ LastEntry(history').triggered_by = rb.inputs.triggered_by
    ]_vars

\* C9: the verification step reports verified exactly when the effective
\* percentage read from the store equals the expected percentage.
C9_VerifyReadsBack ==
  [][ RollbackVerify =>
        ( rb'.verification.status = "verified"
          <=> getCurrentRolloutPercentage(TRUE, "ok")
                = ParseInt(rb'.verification.expectedPercentage).val )
    ]_vars

C11_NotFoundDoesNotFallBack ==
  [][ (client.useGraphQL /\ client'.calls = client.calls + 1) =>
        /\ client'.last.compound = "notFound" =>
             /\ client'.metrics.fallbacks = client.metrics.fallbacks
             /\ client'.metrics.restQueries = client.metrics.restQueries
             /\ client'.last.path # "rest"
             /\ client'.last.outcome = "notFound"
        /\ client'.last.compound \in {"transport", "transformError"} =>
             /\ client'.metrics.fallbacks = client.metrics.fallbacks + 1
             /\ client'.last.path = "rest" ]_vars

\* C12: a getPRCompleteData call whose compound query fails with a transport
\* error and whose fine-grained calls succeed increases fallbacks by one and
\* fineGrainedQueries (restQueries) by five and leaves compoundQueries
\* (graphqlQueries) and totalPointsSaved unchanged.
C12_TransportFallbackCounts ==
  [][ ( /\ client'.calls = client.calls + 1
        /\ client'.last.op = "getPRCompleteData"
        /\ client'.last.compound = "transport"
        /\ client'.last.outcome = "ok" ) =>
        /\ client'.metrics.fallbacks = client.metrics.fallbacks + 1
        /\ client'.metrics.restQueries = client.metrics.restQueries + 5
        /\ client'.metrics.graphqlQueries = client.metrics.graphqlQueries
        /\ client'.metrics.totalPointsSaved = client.metrics.totalPointsSaved ]_vars

\* A transport failure of getPRCompleteData answered by the REST calls, after
\* a compound call that saved points.
C12_Witness ==
  /\ client.last.op = "getPRCompleteData"
  /\ client.last.compound = "transport"
  /\ client.last.outcome = "ok"
  /\ client.metrics.fallbacks = 1
  /\ client.metrics.restQueries = 5
  /\ client.metrics.graphqlQueries = 1
  /\ client.metrics.totalPointsSaved = 4

\* C13: totalPointsSaved is never negative and never decreases, whatever
\* costs the forge reports, costs above 5 included.
C13_PointsSavedMonotone ==
  [][ /\ client.metrics.totalPointsSaved >= 0
      /\ client'.metrics.totalPointsSaved >= client.metrics.totalPointsSaved
      /\ client'.metrics.totalPointsSaved >= 0 ]_vars

\* A compound getPRCompleteData that cost 7 points, after one that saved some.
C13_Witness ==
  /\ client.last.op = "getPRCompleteData"
  /\ client.last.compound = "ok"
  /\ client.last.cost > 5
  /\ client.metrics.totalPointsSaved > 0

\* C14: the job's status only moves forward along pending, processing,
\* then completed or failed; it never moves back and a terminal status never
\* changes, also when an exception is raised after the job was marked
\* completed.
C14_StatusOnlyForward ==
  [][ /\ job.status = "processing" => job'.status # "pending"
      /\ job.status \in {"completed", "failed"} => job'.status = job.status ]_vars

\* C15: the job's completed timestamp is set exactly when its status is
\* completed or failed, and its started timestamp exactly when its status is
\* processing, completed or failed.
C15_TimestampsFollowStatus ==
  /\ job.completed_at # "null" <=> job.status \in {"completed", "failed"}
  /\ job.started_at # "null" <=> job.status \in {"processing", "completed", "failed"}

C18_TenConsecutiveFailuresAbort ==
  ( /\ worker.pc \in {"done", "failed"}
    /\ tracker.failedItems >= 10
    /\ tracker.processedItems = 0 ) => job.status = "failed"

\* C19: a job is routed to the low-latency processor exactly when its time
\* range is at most one day, or it names between one and ten pull requests,
\* or it was triggered manually; every other job goes to the batch
\* processor.
C19_ClassifierRule ==
  LET data == router.data
      lowLatency ==
        \/ data.timeRange.present /\ data.timeRange.val <= 1
        \/ /\ data.prNumbers.present
           /\ Len(data.prNumbers.val) >= 1
           /\ Len(data.prNumbers.val) <= 10
        \/ data.triggerSource = "manual"
  IN  router.queued =>
        /\ lowLatency => router.processor_type = "inngest"
        /\ ~lowLatency => router.processor_type = "github_actions"

\* C20: every rollout-manager command (query, update, stop, resume, history)
\* exits with code 0 when it succeeded and with a non-zero code when it
\* failed on its argument or on the store.
C20_ExitCodeTellsFailure ==
  mgr.command # "none" => (mgr.exitCode = 0 <=> mgr.outcome = "ok")

\* C24: after any sequence of client operations totalPointsSaved is the sum,
\* over the compound calls that completed without fallback, whichever of the
\* four operations made them, of max(0, 5 - cost reported for the call):
\* every such call adds that much and no other call adds anything.
C24_PointsSavedByEveryOperation ==
  [][ client'.calls = client.calls + 1 =>
        client'.metrics.totalPointsSaved =
          client.metrics.totalPointsSaved +
          ( IF client'.last.compound = "ok"
            THEN (IF client'.last.cost < 5 THEN 5 - client'.last.cost ELSE 0)
            ELSE 0 ) ]_vars

\* C24 as amended: totalPointsSaved is the sum of max(0, 5 - cost) over the
\* getPRCompleteData calls whose compound query completed without fallback;
\* getPRReviews, getPRComments and getRecentPRs add nothing.
C24_PointsSavedByCompleteData ==
  [][ client'.calls = client.calls + 1 =>
        client'.metrics.totalPointsSaved =
          client.metrics.totalPointsSaved +
          ( IF client'.last.compound = "ok" /\ client'.last.op = "getPRCompleteData"
            THEN (IF client'.last.cost < 5 THEN 5 - client'.last.cost ELSE 0)
            ELSE 0 ) ]_vars

\* A compound getPRReviews that cost 1 point, after a compound
\* getPRCompleteData that saved 4.
C24_Witness ==
  /\ client.last.op = "getPRReviews"
  /\ client.last.compound = "ok"
  /\ client.last.cost = 1
  /\ client.metrics.graphqlQueries = 2
  /\ client.metrics.totalPointsSaved = 4

\* C26: every successful compound call of the hybrid client gives the
\* monitor exactly one more sample, whose cost, remaining and limit are the
\* ones the forge reported for that call.
C26_CompoundCallsTracked ==
  [][ (client'.calls = client.calls + 1 /\ client'.last.compound = "ok") =>
        /\ Len(monitor'.history) = Len(monitor.history) + 1
        /\ LET sample == monitor'.history[Len(monitor'.history)]
           IN  /\ sample.cost = client'.lastRateLimit.cost
               /\ sample.remaining = client'.lastRateLimit.remaining
               /\ sample.limit = client'.lastRateLimit.limit ]_vars

\* C29: every operation invoked with the compound path enabled increments
\* exactly one of graphqlQueries and fallbacks, by one, so that their sum
\* counts the compound-enabled invocations.
C29_OneCounterPerInvocation ==
  [][ (client.useGraphQL /\ client'.calls = client.calls + 1) =>
        (client'.metrics.graphqlQueries - client.metrics.graphqlQueries) +
        (client'.metrics.fallbacks - client.metrics.fallbacks) = 1 ]_vars

\* C22: after any sequence of track calls the monitor holds at most 50
\* alerts, and they are the most recently produced ones in the order they
\* were produced, both alerts of a call that produces two being counted.
C22_LastFiftyAlerts ==
  [][ monitor'.tracks = monitor.tracks + 1 =>
        LET entry    == monitor'.history[Len(monitor'.history)]
            produced == monitor.alerts \o checkThresholds(<<>>, entry, monitor.now)
            first    == IF Len(produced) > 50 THEN Len(produced) - 49 ELSE 1
        IN  /\ Len(monitor'.alerts) <= 50
            /\ monitor'.alerts = SubSeq(produced, first, Len(produced)) ]_vars

\* Fifty alerts held after 53 were produced: the oldest one kept is the
\* fourth, the warning of the third call.
C22_Witness ==
  /\ monitor.tracks = 27
  /\ Len(monitor.alerts) = 50
  /\ monitor.alerts[1].level = "warning"
  /\ monitor.alerts[1].value = 992
  /\ monitor.alerts[50].level = "info"

\* C23: with a non-empty history and queriesRemaining >= 0, predict returns
\* the mean cost of the last min(10, n) samples as averageCost (printed with
\* two decimals), the latest sample's remaining budget as currentRemaining,
\* willExceedLimit true exactly when queriesRemaining x averageCost exceeds
\* currentRemaining, and floor(currentRemaining / averageCost) as
\* safeQueries, a non-negative integer also when every recent sample cost 0.
C23_PredictWellDefined ==
  [][ (monitor'.prediction # monitor.prediction /\ monitor.history # <<>>) =>
        LET n      == IF Len(monitor.history) < 10 THEN Len(monitor.history) ELSE 10
            recent == SubSeq(monitor.history, Len(monitor.history) - n + 1,
                             Len(monitor.history))
            total  == SumCost(recent)
            p      == monitor'.prediction
        IN  /\ p.averageCost = (200 * total + n) \div (2 * n)
            /\ p.currentRemaining = monitor.history[Len(monitor.history)].remaining
            /\ p.willExceedLimit <=>
                 (p.queriesRemaining * total > p.currentRemaining * n)
            /\ p.safeQueries.kind = "number"
            /\ p.safeQueries.val >= 0
            /\ total > 0 => p.safeQueries.val = (p.currentRemaining * n) \div total ]_vars

\* C27: from the initial configuration, by any sequence of update, stop and
\* resume, is_active holds exactly when emergency_stop does not, and an
\* update (by the manager or by the script) changes neither flag.
C27_ActiveIffNotStopped ==
  /\ config.is_active <=> ~config.emergency_stop
  /\ [][ /\ config'.is_active <=> ~config'.emergency_stop
         /\ \A arg \in ArgStrings, outcome \in StoreOutcomes :
              ManagerUpdate(arg, outcome) =>
                /\ config'.is_active = config.is_active
                /\ config'.emergency_stop = config.emergency_stop
         /\ \A s \in Scripts, outcome \in StoreOutcomes :
              ScriptUpdateRow(s, outcome) =>
                /\ config'.is_active = config.is_active
                /\ config'.emergency_stop = config.emergency_stop ]_vars

\* A stopped configuration holding a percentage some update stored.
C27_Witness ==
  /\ config.emergency_stop
  /\ ~config.is_active
  /\ config.rollout_percentage > 0
  /\ mgr.command = "stop"
  /\ mgr.outcome = "ok"

\* C28: with an emergency stop running concurrently with a script update,
\* the script's percentage write never takes effect once the stop is
\* stored.
C28_NoPercentageWriteAfterStop ==
  [][ \A s \in Scripts :
        (ScriptUpdateRow(s, "ok") /\ config.emergency_stop) =>
          config'.rollout_percentage = config.rollout_percentage ]_vars

\* C21: a forge answer of NotFound for one item is recorded against the item
\* in the progress row: failed_items one higher with one more error record,
\* processed_items unchanged, and the job goes on with the next item.
C21_NotFoundRecordedAgainstItem ==
  [][ (WorkerProcessItem("notFound", "ok") /\ tracker.progressId) =>
        /\ progress'.failed_items = progress.failed_items + 1
        /\ Len(progress'.errors) = Len(progress.errors) + 1
        /\ progress'.processed_items = progress.processed_items
        /\ worker'.pc \in {"loop", "complete"} ]_vars

\* C25: whichever of the four scripts runs and whatever the compound
\* toggle, with PR_NUMBERS empty the items are read from the store and no
\* forge call is made to discover them.
C25_EmptyPRNumbersReadsStore ==
  [][ (worker.pc = "fetch" /\ worker'.pc # "fetch" /\ Len(worker.prNumbers) = 0) =>
        /\ worker'.discovery = "store"
        /\ client' = client ]_vars

\* C30: the job row is moved to processing before the first forge call, so
\* it is no longer pending once an item has been processed, and it is
\* completed or failed, never pending or processing, when the run has ended.
C30_JobLeavesPendingAndEndsTerminal ==
  /\ worker.idx > 1 => job.status # "pending"
  /\ worker.pc \in {"done", "failed"} => job.status \in {"completed", "failed"}

====
